---- MODULE Spec2Model ----
(***************************************************************************)
(* S3-FIFO cache (src/src/lib.rs): three FIFO queues Small, Main and Ghost *)
(* with a per-entry access counter.  A VecDeque is a sequence whose index  *)
(* 1 is the front (head) and whose last index is the back (tail).          *)
(***************************************************************************)
EXTENDS Integers, Sequences, FiniteSets, TLC

\* ---------------------------------------------------------------- bounds
MaxKey == 2
MaxVal == 2
MaxSmall == 2
MaxMain == 2

Keys == 1 .. MaxKey
Values == 1 .. MaxVal

\* ------------------------------------------------------ program constants
MAX_FREQ == 3
U8 == 256

\* ------------------------------------------------------------------ state
\* the fields of S3Fifo
VARIABLES small, main, ghost, small_size, main_size
\* the last call: its arguments and what it observed (op), its result (ret);
\* whether every insert so far was made for a key in neither Small nor Main
VARIABLES op, ret, on_miss
\* the read calls in progress at the same time, each at one of its atomic
\* steps (empty while calls run one after the other)
VARIABLES readers

vars == <<small, main, ghost, small_size, main_size, op, ret, on_miss, readers>>

\* the S3Fifo struct as one value
S3Fifo(s, m, g, ss, ms) ==
  [small |-> s, main |-> m, ghost |-> g, small_size |-> ss, main_size |-> ms]

self == S3Fifo(small, main, ghost, small_size, main_size)

\* Option<V>: None is <<>>, Some(v) is <<v>>
None == <<>>
Some(v) == <<v>>

\* ---------------------------------------------------------------- helpers
push_front(q, e) == <<e>> \o q
pop_back(q) == SubSeq(q, 1, Len(q) - 1)
back(q) == q[Len(q)]
contains(g, k) == \E i \in 1 .. Len(g) : g[i] = k

\* variant: a fresh entry that already counts one access
EntryNew_counted(k, v) == [key |-> k, value |-> v, freq |-> 1]

\* Entry::new
EntryNew(k, v) == [key |-> k, value |-> v, freq |-> 0]

\* S3Fifo::new
new(ss, ms) == S3Fifo(<<>>, <<>>, <<>>, ss, ms)

\* variant: plain FIFO, the tail is dropped whatever its freq
evict_main_fifo(m) == IF m = <<>> THEN m ELSE pop_back(m)

\* S3Fifo::evict_main: pop the tail; a tail with freq > 0 goes back to the
\* head with freq - 1 and the loop goes on; a tail with freq 0 is dropped.
RECURSIVE evict_main(_)
evict_main(m) ==
  IF m = <<>> THEN m
  ELSE LET tail == back(m)
           n == tail.freq
       IN IF n > 0
          THEN evict_main(push_front(pop_back(m), [tail EXCEPT !.freq = n - 1]))
          ELSE pop_back(m)

\* the number of pop_back calls one run of evict_main makes
RECURSIVE evict_main_pops(_)
evict_main_pops(m) ==
  IF m = <<>> THEN 0
  ELSE LET tail == back(m)
           n == tail.freq
       IN IF n > 0
          THEN 1 + evict_main_pops(push_front(pop_back(m), [tail EXCEPT !.freq = n - 1]))
          ELSE 1

\* variant: the demotion branch pushes to Ghost without the capacity test
evict_small_unbounded_ghost(q) ==
  IF q.small = <<>> THEN q
  ELSE LET tail == back(q.small)
           s1 == pop_back(q.small)
       IN IF tail.freq > 1
          THEN LET m1 == IF Len(q.main) >= q.main_size
                         THEN evict_main(q.main) ELSE q.main
               IN [q EXCEPT !.small = s1, !.main = push_front(m1, tail)]
          ELSE [q EXCEPT !.small = s1, !.ghost = push_front(q.ghost, tail.key)]

\* variant: the promotion branch copies the tail to Main and leaves it in Small
evict_small_copy(q) ==
  IF q.small = <<>> THEN q
  ELSE LET tail == back(q.small)
           s1 == pop_back(q.small)
       IN IF tail.freq > 1
          THEN LET m1 == IF Len(q.main) >= q.main_size
                         THEN evict_main(q.main) ELSE q.main
               IN [q EXCEPT !.main = push_front(m1, tail)]
          ELSE LET g1 == IF Len(q.ghost) >= q.main_size
                         THEN pop_back(q.ghost) ELSE q.ghost
               IN [q EXCEPT !.small = s1, !.ghost = push_front(g1, tail.key)]

\* variant: pop_front in place of pop_back
evict_small_front(q) ==
  IF q.small = <<>> THEN q
  ELSE LET tail == Head(q.small)
           s1 == Tail(q.small)
       IN IF tail.freq > 1
          THEN LET m1 == IF Len(q.main) >= q.main_size
                         THEN evict_main(q.main) ELSE q.main
               IN [q EXCEPT !.small = s1, !.main = push_front(m1, tail)]
          ELSE LET g1 == IF Len(q.ghost) >= q.main_size
                         THEN pop_back(q.ghost) ELSE q.ghost
               IN [q EXCEPT !.small = s1, !.ghost = push_front(g1, tail.key)]

\* variant: the promotion branch also records the key in Ghost
evict_small_both(q) ==
  IF q.small = <<>> THEN q
  ELSE LET tail == back(q.small)
           s1 == pop_back(q.small)
           g1 == IF Len(q.ghost) >= q.main_size
                 THEN pop_back(q.ghost) ELSE q.ghost
       IN IF tail.freq > 1
          THEN LET m1 == IF Len(q.main) >= q.main_size
                         THEN evict_main(q.main) ELSE q.main
               IN [q EXCEPT !.small = s1, !.main = push_front(m1, tail),
                            !.ghost = push_front(g1, tail.key)]
          ELSE [q EXCEPT !.small = s1, !.ghost = push_front(g1, tail.key)]

\* variant: one access is enough to be promoted (freq > 0)
evict_small_threshold(q) ==
  IF q.small = <<>> THEN q
  ELSE LET tail == back(q.small)
           s1 == pop_back(q.small)
       IN IF tail.freq > 0
          THEN LET m1 == IF Len(q.main) >= q.main_size
                         THEN evict_main(q.main) ELSE q.main
               IN [q EXCEPT !.small = s1, !.main = push_front(m1, tail)]
          ELSE LET g1 == IF Len(q.ghost) >= q.main_size
                         THEN pop_back(q.ghost) ELSE q.ghost
               IN [q EXCEPT !.small = s1, !.ghost = push_front(g1, tail.key)]

\* variant: a full Ghost drops its head, the newest key
evict_small_ghost_lifo(q) ==
  IF q.small = <<>> THEN q
  ELSE LET tail == back(q.small)
           s1 == pop_back(q.small)
       IN IF tail.freq > 1
          THEN LET m1 == IF Len(q.main) >= q.main_size
                         THEN evict_main(q.main) ELSE q.main
               IN [q EXCEPT !.small = s1, !.main = push_front(m1, tail)]
          ELSE LET g1 == IF Len(q.ghost) >= q.main_size /\ q.ghost # <<>>
                         THEN Tail(q.ghost) ELSE q.ghost
               IN [q EXCEPT !.small = s1, !.ghost = push_front(g1, tail.key)]

\* S3Fifo::evict_small
evict_small(q) ==
  IF q.small = <<>> THEN q
  ELSE LET tail == back(q.small)
           s1 == pop_back(q.small)
       IN IF tail.freq > 1
          THEN LET m1 == IF Len(q.main) >= q.main_size
                         THEN evict_main(q.main) ELSE q.main
               IN [q EXCEPT !.small = s1, !.main = push_front(m1, tail)]
          ELSE LET g1 == IF Len(q.ghost) >= q.main_size
                         THEN pop_back(q.ghost) ELSE q.ghost
               IN [q EXCEPT !.small = s1, !.ghost = push_front(g1, tail.key)]

\* variant: a key found in Ghost goes through the Small path like any other
insert_always_small(q, k, v) ==
  LET q1 == IF Len(q.small) >= q.small_size
            THEN evict_small(q) ELSE q
  IN [q1 EXCEPT !.small = push_front(q1.small, EntryNew(k, v))]

\* variant: the key of the entry Main eviction makes room with is recorded
\* in Ghost, as a demotion from Small would be
insert_ghosting_main(q, k, v) ==
  IF contains(q.ghost, k)
  THEN IF Len(q.main) >= q.main_size /\ q.main # <<>>
       THEN LET g1 == IF Len(q.ghost) >= q.main_size
                      THEN pop_back(q.ghost) ELSE q.ghost
            IN [q EXCEPT !.main = push_front(evict_main(q.main), EntryNew(k, v)),
                         !.ghost = push_front(g1, back(q.main).key)]
       ELSE [q EXCEPT !.main = push_front(q.main, EntryNew(k, v))]
  ELSE LET q1 == IF Len(q.small) >= q.small_size
                 THEN evict_small(q) ELSE q
       IN [q1 EXCEPT !.small = push_front(q1.small, EntryNew(k, v))]

\* variant: the new entry is pushed at the tail of its queue
insert_push_back(q, k, v) ==
  IF contains(q.ghost, k)
  THEN LET m1 == IF Len(q.main) >= q.main_size
                 THEN evict_main(q.main) ELSE q.main
       IN [q EXCEPT !.main = m1 \o <<EntryNew(k, v)>>]
  ELSE LET q1 == IF Len(q.small) >= q.small_size
                 THEN evict_small(q) ELSE q
       IN [q1 EXCEPT !.small = q1.small \o <<EntryNew(k, v)>>]

\* S3Fifo::insert
insert(q, k, v) ==
  IF contains(q.ghost, k)
  THEN LET m1 == IF Len(q.main) >= q.main_size
                 THEN evict_main(q.main) ELSE q.main
       IN [q EXCEPT !.main = push_front(m1, EntryNew(k, v))]
  ELSE LET q1 == IF Len(q.small) >= q.small_size
                 THEN evict_small(q) ELSE q
       IN [q1 EXCEPT !.small = push_front(q1.small, EntryNew(k, v))]

\* variant: main.iter().chain(small.iter()), the order of the test at line 132
find_main_first(q, k) ==
  LET ls == Len(q.small)
      inMain == {i \in 1 .. Len(q.main) : q.main[i].key = k}
      inSmall == {i \in 1 .. ls : q.small[i].key = k}
  IN IF inMain # {} THEN ls + (CHOOSE i \in inMain : \A j \in inMain : i <= j)
     ELSE IF inSmall # {} THEN CHOOSE i \in inSmall : \A j \in inSmall : i <= j
     ELSE 0

\* small.iter().chain(main.iter()).find(|e| &e.key == key): the position of
\* the first match in Small followed by Main, 0 when there is none
find(q, k) ==
  LET all == q.small \o q.main
      hits == {i \in 1 .. Len(all) : all[i].key = k}
  IN IF hits = {} THEN 0
     ELSE CHOOSE i \in hits : \A j \in hits : i <= j

\* variant: fetch_add without the clamp
bump_unclamped(f) == (f + 1) % U8

\* freq.fetch_add(1) + 1 > MAX_FREQ, then store(MAX_FREQ)
bump(f) ==
  LET stored == (f + 1) % U8
  IN IF f + 1 > MAX_FREQ THEN MAX_FREQ ELSE stored

\* variant: a hit also moves the matched entry to the head of its queue
read_move_to_front(q, k) ==
  LET i == find(q, k)
      ls == Len(q.small)
      without(x, n) == SubSeq(x, 1, n - 1) \o SubSeq(x, n + 1, Len(x))
  IN IF i = 0 THEN [q |-> q, ret |-> None]
     ELSE IF i <= ls
          THEN [q |-> [q EXCEPT !.small =
                         push_front(without(@, i), [@[i] EXCEPT !.freq = bump(@)])],
                ret |-> Some(q.small[i].value)]
          ELSE [q |-> [q EXCEPT !.main =
                         push_front(without(@, i - ls), [@[i - ls] EXCEPT !.freq = bump(@)])],
                ret |-> Some(q.main[i - ls].value)]

\* S3Fifo::read: the queues after the call and the returned Option
read(q, k) ==
  LET i == find(q, k)
      ls == Len(q.small)
  IN IF i = 0 THEN [q |-> q, ret |-> None]
     ELSE IF i <= ls
          THEN [q |-> [q EXCEPT !.small[i].freq = bump(@)],
                ret |-> Some(q.small[i].value)]
          ELSE [q |-> [q EXCEPT !.main[i - ls].freq = bump(@)],
                ret |-> Some(q.main[i - ls].value)]

\* --------------------------------------------------------------- actions
Install(q) ==
  /\ small' = q.small
  /\ main' = q.main
  /\ ghost' = q.ghost
  /\ small_size' = q.small_size
  /\ main_size' = q.main_size

NoOp == [kind |-> "new", key |-> 0, value |-> 0,
         in_ghost |-> FALSE, full |-> FALSE, old |-> -1, pops |-> 0,
         tail |-> "none", drop |-> FALSE]

NoReaders == <<>>

Init ==
  /\ \E ss \in 1 .. MaxSmall, ms \in 1 .. MaxMain : 
       /\ small = new(ss, ms).small
       /\ main = new(ss, ms).main
       /\ ghost = new(ss, ms).ghost
       /\ small_size = new(ss, ms).small_size
       /\ main_size = new(ss, ms).main_size
  /\ op = NoOp
  /\ ret = None
  /\ on_miss = TRUE
  /\ readers = NoReaders

present(q, k) == find(q, k) # 0

\* what insert(k, v) observes on its way: the test of line 50, whether the
\* queue it pushes to was at capacity, the pops of evict_main if it ran, what
\* evict_small did with the tail of Small, and whether line 99 dropped a key
InsertOp(q, k, v) ==
  LET g == contains(q.ghost, k)
      evicts == /\ ~g
                /\ Len(q.small) >= q.small_size
                /\ q.small # <<>>
      promote == /\ ~g
                 /\ Len(q.small) >= q.small_size
                 /\ q.small # <<>>
                 /\ back(q.small).freq > 1
      runs_main == /\ Len(q.main) >= q.main_size
                   /\ (g \/ promote)
  IN [kind |-> "insert", key |-> k, value |-> v,
      in_ghost |-> g,
      full |-> IF g THEN Len(q.main) >= q.main_size
                    ELSE Len(q.small) >= q.small_size,
      old |-> -1,
      pops |-> IF runs_main THEN evict_main_pops(q.main) ELSE 0,
      tail |-> IF promote THEN "promoted"
               ELSE IF evicts THEN "demoted" ELSE "none",
      drop |-> /\ evicts /\ ~promote
               /\ Len(q.ghost) >= q.main_size
               /\ q.ghost # <<>>]

\* what read(k) observes: the value fetch_add returns, -1 on a miss
ReadOp(q, k) ==
  LET i == find(q, k)
  IN [kind |-> "read", key |-> k, value |-> 0,
      in_ghost |-> FALSE, full |-> FALSE,
      old |-> IF i = 0 THEN -1 ELSE (q.small \o q.main)[i].freq,
      pops |-> 0, tail |-> "none", drop |-> FALSE]

Insert(k, v) ==
  /\ Install(insert(self, k, v))
  /\ op' = InsertOp(self, k, v)
  /\ ret' = None
  /\ on_miss' = (on_miss /\ ~present(self, k))
  /\ UNCHANGED readers

Read(k) ==
  /\ Install(read(self, k).q)
  /\ op' = ReadOp(self, k)
  /\ ret' = read(self, k).ret
  /\ UNCHANGED <<on_miss, readers>>

Next ==
  \/ \E k \in Keys, v \in Values : Insert(k, v)
  \/ \E k \in Keys : Read(k)

Spec == Init /\ [][Next]_vars

\* insert-on-miss discipline: the caller inserts k only after a miss on k
InsertOnMiss(k, v) == ~present(self, k) /\ Insert(k, v)

NextMiss ==
  \/ \E k \in Keys, v \in Values : InsertOnMiss(k, v)
  \/ \E k \in Keys : Read(k)

SpecMiss == Init /\ [][NextMiss]_vars

\* the calls of the test: every key is inserted with itself as value
\* (line 138); one key more than Keys, so that three keys can be in flight
MoreKeys == 1 .. MaxKey + 1

NextKeys ==
  \/ \E k \in MoreKeys : Insert(k, k)
  \/ \E k \in MoreKeys : Read(k)

SpecKeys == Init /\ [][NextKeys]_vars

\* the calls of the test under the insert-on-miss discipline
NextMissKeys ==
  \/ \E k \in MoreKeys : InsertOnMiss(k, k)
  \/ \E k \in MoreKeys : Read(k)

SpecMissKeys == Init /\ [][NextMissKeys]_vars

\* ------------------------------------------- reads running at the same time
\* read takes &self, so several calls may run at once; each is two atomic
\* steps on the matched entry's AtomicU8: fetch_add(1), then store(MAX_FREQ)
\* when the value fetch_add returned, plus one, exceeds MAX_FREQ.
MaxReaders == 3

\* the counter after fetch_add(1): wrapping, as AtomicU8::fetch_add is
fetch_add(f) == (f + 1) % U8

\* the test of line 68 on the value fetch_add returned
over(old) == (old + 1) % U8 > MAX_FREQ

\* variant: the clamp stores back the value the call saw
clamp_seen(old) == old

\* the value line 70 stores, old being what fetch_add returned
clamp(old) == MAX_FREQ

\* the cache with the freq of the i-th entry of Small then Main set to f
set_freq(q, i, f) ==
  IF i <= Len(q.small)
  THEN [q EXCEPT !.small[i].freq = f]
  ELSE [q EXCEPT !.main[i - Len(q.small)].freq = f]

freq_at(q, i) == (q.small \o q.main)[i].freq

\* a cache holding an entry with key k and freq f0, in Small or promoted to
\* Main with another key behind it in Small, and n calls of read(k) started
InitReaders ==
  /\ \E ss \in 1 .. MaxSmall, ms \in 1 .. MaxMain, k \in Keys,
        f0 \in 0 .. MAX_FREQ, n \in 1 .. MaxReaders, promoted \in BOOLEAN :
       LET e == [key |-> k, value |-> k, freq |-> f0]
           other == CHOOSE x \in Keys : x # k
       IN /\ small = IF promoted THEN <<EntryNew(other, other)>> ELSE <<e>>
          /\ main = IF promoted THEN <<e>> ELSE <<>>
          /\ ghost = <<>>
          /\ small_size = ss
          /\ main_size = ms
          /\ readers = [key |-> k, f0 |-> f0,
                        th |-> [r \in 1 .. n |-> [pc |-> "fetch_add", old |-> -1]]]
  /\ op = NoOp
  /\ ret = None
  /\ on_miss = TRUE

\* lines 64-68: find the entry, fetch_add(1), test the returned value
ReaderAdd(r) ==
  /\ r \in DOMAIN readers.th
  /\ readers.th[r].pc = "fetch_add"
  /\ LET i == find(self, readers.key)
         old == freq_at(self, i)
     IN /\ i # 0
        /\ Install(set_freq(self, i, fetch_add(old)))
        /\ readers' = [readers EXCEPT !.th[r] =
                         [pc |-> IF over(old) THEN "store" ELSE "done",
                          old |-> old]]
  /\ UNCHANGED <<op, ret, on_miss>>

\* line 70: store(MAX_FREQ)
ReaderStore(r) ==
  /\ r \in DOMAIN readers.th
  /\ readers.th[r].pc = "store"
  /\ LET i == find(self, readers.key)
     IN /\ i # 0
        /\ Install(set_freq(self, i, clamp(readers.th[r].old)))
  /\ readers' = [readers EXCEPT !.th[r].pc = "done"]
  /\ UNCHANGED <<op, ret, on_miss>>

NextReaders ==
  \/ \E r \in 1 .. MaxReaders : ReaderAdd(r)
  \/ \E r \in 1 .. MaxReaders : ReaderStore(r)

SpecReaders == InitReaders /\ [][NextReaders]_vars

\* a cache built with a zero capacity: new stores whatever it is given
InitZero ==
  /\ \E ss \in 0 .. MaxSmall, ms \in 0 .. MaxMain :
       /\ ss = 0 \/ ms = 0
       /\ small = new(ss, ms).small
       /\ main = new(ss, ms).main
       /\ ghost = new(ss, ms).ghost
       /\ small_size = new(ss, ms).small_size
       /\ main_size = new(ss, ms).main_size
  /\ op = NoOp
  /\ ret = None
  /\ on_miss = TRUE
  /\ readers = NoReaders

SpecZero == InitZero /\ [][Next]_vars

\* ---------------------------------------------------------- shared notions
Live == small \o main
KeysOf(q) == {q[i].key : i \in 1 .. Len(q)}
GhostKeys == {ghost[i] : i \in 1 .. Len(ghost)}
Shape(q) == [i \in 1 .. Len(q) |-> <<q[i].key, q[i].value>>]

TypeOK ==
  /\ small_size \in 1 .. MaxSmall
  /\ main_size \in 1 .. MaxMain
  /\ \A i \in 1 .. Len(Live) :
       /\ Live[i].key \in Keys
       /\ Live[i].value \in Values
       /\ Live[i].freq \in 0 .. U8 - 1
  /\ GhostKeys \subseteq Keys
  /\ ret \in {None} \cup {Some(v) : v \in Values}

\* ------------------------------------------------------- shared predicates
\* position of the first entry with key k in the sequence all, 0 if none
IsFirst(all, k, i) ==
  /\ i \in 1 .. Len(all)
  /\ all[i].key = k
  /\ \A j \in 1 .. i - 1 : all[j].key # k

HasKey(all, k) == \E i \in 1 .. Len(all) : all[i].key = k

UniqueKeys(all) ==
  \A i, j \in 1 .. Len(all) : all[i].key = all[j].key => i = j

Pairs(all) == {<<all[i].key, all[i].value>> : i \in 1 .. Len(all)}

\* ---------------------------------------------------------------------- C1
\* C1: with positive capacities, after every insert or read, Small holds at
\* most small_size entries and Main and Ghost at most main_size each.
C1_Capacity ==
  (small_size > 0 /\ main_size > 0) =>
    /\ Len(small) <= small_size
    /\ Len(main) <= main_size
    /\ Len(ghost) <= main_size

\* all three queues at capacity right after an insert that had to evict
C1_Witness ==
  /\ op.kind = "insert"
  /\ op.full
  /\ small_size > 1
  /\ main_size > 1
  /\ Len(small) = small_size
  /\ Len(main) = main_size
  /\ Len(ghost) = main_size

\* ---------------------------------------------------------------------- C2
\* C2: read(k) returns Some exactly when an entry with key k is in Small or
\* Main; the value is that of the first match in Small then Main; and every
\* entry in the queues carries a (key, value) pair that an insert put there.
C2_ReadFirstMatch ==
  [][ /\ Pairs(Live') \subseteq
           Pairs(Live) \cup (IF op'.kind = "insert"
                             THEN {<<op'.key, op'.value>>} ELSE {})
      /\ op'.kind = "read" =>
           /\ (ret' # None) <=> HasKey(Live, op'.key)
           /\ ret' # None =>
                \E i \in 1 .. Len(Live) :
                  /\ IsFirst(Live, op'.key, i)
                  /\ ret' = Some(Live[i].value)
    ]_vars

\* a hit on a key held twice with different values, once in each queue
C2_Witness ==
  /\ op.kind = "read"
  /\ ret # None
  /\ \E i \in 1 .. Len(small), j \in 1 .. Len(main) :
       /\ IsFirst(small, op.key, i)
       /\ main[j].key = op.key
       /\ main[j].value # small[i].value
       /\ ret = Some(small[i].value)

\* ---------------------------------------------------------------------- C3
\* C3 as stated: after any sequence of insert and read, no key has two
\* entries across Small and Main.
C3_Original == UniqueKeys(Live)

\* C3 as amended: as long as every insert so far was made for a key that had
\* no entry in Small or Main, no key has two entries across Small and Main.
C3_UniqueOnMiss == on_miss => UniqueKeys(Live)

\* a key re-admitted through Ghost while the other key sits in Small
C3_Witness ==
  /\ on_miss
  /\ op.kind = "insert"
  /\ op.in_ghost
  /\ small # <<>>
  /\ Len(main) > 0
  /\ \E i \in 1 .. Len(small) : small[i].freq > 1

\* ---------------------------------------------------------------------- C4
\* C4: after every operation no key of Small or Main is also in Ghost.
C4_Claim == KeysOf(Live) \cap GhostKeys = {}

\* ---------------------------------------------------------------------- C5
\* C5: an insert of a key that is in Ghost removes the key from Ghost.
C5_Claim ==
  (op.kind = "insert" /\ op.in_ghost) => ~contains(ghost, op.key)

\* ---------------------------------------------------------------------- C6
\* C6: an insert of a key that is in Ghost puts the fresh entry (freq 0) at
\* the head of Main and leaves Small as it was, full or not.
C6_GhostHitGoesToMain ==
  [][ (op'.kind = "insert" /\ contains(ghost, op'.key)) =>
        /\ main' # <<>>
        /\ main'[1] = [key |-> op'.key, value |-> op'.value, freq |-> 0]
        /\ small' = small
    ]_vars

\* the insert found its key in Ghost while Small was full
C6_Witness ==
  /\ op.kind = "insert"
  /\ op.in_ghost
  /\ Len(small) = small_size
  /\ small_size > 1
  /\ main[1] = [key |-> op.key, value |-> op.value, freq |-> 0]

\* ---------------------------------------------------------------------- C7
\* C7: a read that misses changes nothing in Small, Main and Ghost; a read
\* that hits keeps members and order of all three and changes at most the
\* freq of the matched entry.
C7_ReadKeepsStructure ==
  [][ op'.kind = "read" =>
        /\ ghost' = ghost
        /\ Shape(small') = Shape(small)
        /\ Shape(main') = Shape(main)
        /\ ret' = None => (small' = small /\ main' = main)
        /\ ret' # None =>
             \E i \in 1 .. Len(Live) :
               /\ IsFirst(Live, op'.key, i)
               /\ \A j \in 1 .. Len(Live) : j # i => Live'[j] = Live[j]
    ]_vars

\* a hit that raised a counter with three or more entries in the queues
C7_Witness ==
  /\ op.kind = "read"
  /\ ret # None
  /\ op.old < MAX_FREQ
  /\ Len(small) > 1
  /\ Len(main) > 0
  /\ Len(ghost) > 0

\* ---------------------------------------------------------------------- C8
\* C8: every entry of Small and Main has 0 <= freq <= 3; a read of an entry
\* at 3 leaves it at 3; the decrement of Main eviction stops at 0.
C8_FreqClamp ==
  /\ \A i \in 1 .. Len(Live) : Live[i].freq \in 0 .. MAX_FREQ
  /\ (op.kind = "read" /\ op.old = MAX_FREQ) =>
       \E i \in 1 .. Len(Live) :
         IsFirst(Live, op.key, i) /\ Live[i].freq = MAX_FREQ

\* a read of an entry whose counter was already 3
C8_Witness ==
  /\ op.kind = "read"
  /\ op.old = MAX_FREQ
  /\ ret # None

\* a Main eviction that decremented and rotated before it dropped an entry
C8_WitnessDecrement ==
  /\ op.kind = "insert"
  /\ op.pops > 1
  /\ \E i \in 1 .. Len(main) : main[i].freq = 0 /\ i > 1

\* ---------------------------------------------------------------------- C9
\* C9: in every reachable state and for every key k and value v, insert(k, v)
\* succeeds and puts one fresh entry (k, v, freq 0) at the head of Small when
\* k is not in Ghost and at the head of Main when it is, and adds no other
\* entry to either queue.
C9_InsertAddsOne ==
  \A k \in Keys, v \in Values :
    LET q == insert(self, k, v)
        e == [key |-> k, value |-> v, freq |-> 0]
    IN /\ q.small_size = small_size
       /\ q.main_size = main_size
       /\ Len(q.small) + Len(q.main) <= Len(small) + Len(main) + 1
       /\ IF contains(ghost, k)
          THEN /\ q.main # <<>> /\ q.main[1] = e
               /\ q.small = small
          ELSE /\ q.small # <<>> /\ q.small[1] = e
               /\ \/ Tail(q.small) = small /\ q.main = main
                  \/ /\ small # <<>>
                     /\ Tail(q.small) = pop_back(small)
                     /\ \/ Shape(q.main) = Shape(main)
                        \/ q.main[1] = back(small)

\* an insert into a Small with room, so nothing is evicted
C9_Witness ==
  /\ op.kind = "insert"
  /\ ~op.in_ghost
  /\ ~op.full
  /\ Len(small) > 1
  /\ small[1] = [key |-> op.key, value |-> op.value, freq |-> 0]

\* --------------------------------------------------------------------- C10
\* C10: an insert of a key that is not in Ghost into a full Small removes
\* exactly the tail of Small (promoted to Main or demoted to Ghost), keeps
\* the other entries in order and leaves Small full.
C10_FullSmallEvictsTail ==
  [][ ( /\ op'.kind = "insert"
        /\ ~contains(ghost, op'.key)
        /\ small_size > 0
        /\ Len(small) = small_size ) =>
        /\ Tail(small') = pop_back(small)
        /\ Len(small') = small_size
        /\ \/ /\ main' # <<>> /\ main'[1] = back(small)
              /\ ghost' = ghost
           \/ /\ ghost' # <<>> /\ ghost'[1] = back(small).key
              /\ main' = main
    ]_vars

\* such an insert happened with two entries in Small
C10_Witness ==
  /\ op.kind = "insert"
  /\ ~op.in_ghost
  /\ op.full
  /\ small_size > 1
  /\ Len(small) = small_size
  /\ small[1] = [key |-> op.key, value |-> op.value, freq |-> 0]

\* --------------------------------------------------------------------- C11
\* C11: a cache built with a zero capacity keeps its bounds: with
\* small_size = 0 Small is empty after every operation, and with
\* main_size = 0 Main and Ghost are empty after every operation.
C11_Claim ==
  /\ small_size = 0 => small = <<>>
  /\ main_size = 0 => (main = <<>> /\ ghost = <<>>)

\* --------------------------------------------------------------------- C12
\* the scenario of the specification: capacities 2 and 2, keys A, B, C, D
\* written 1, 2, 3, 4; insert A, B, C, read B twice, insert D
Scenario ==
  LET q1 == insert(new(2, 2), 1, 1)
      q2 == insert(q1, 2, 2)
      q3 == insert(q2, 3, 3)
      q4 == read(q3, 2).q
      q5 == read(q4, 2).q
  IN insert(q5, 4, 4)

\* C12: Small eviction removes the tail of Small; with freq > 1 the entry
\* goes unchanged to the head of Main and Ghost stays as it was; with freq
\* 0 or 1 only its key goes to the head of Ghost and Main stays as it was.
\* The scenario ends with Ghost = [A], Main = [B], Small = [D, C].
C12_SmallEviction ==
  /\ Scenario.ghost = <<1>>
  /\ Shape(Scenario.main) = <<(<<2, 2>>)>>
  /\ Shape(Scenario.small) = <<(<<4, 4>>), (<<3, 3>>)>>
  /\ [][ ( /\ op'.kind = "insert"
           /\ ~contains(ghost, op'.key)
           /\ Len(small) >= small_size
           /\ small # <<>> ) =>
           LET t == back(small)
           IN /\ Tail(small') = pop_back(small)
              /\ IF t.freq > 1
                 THEN /\ main' # <<>> /\ main'[1] = t
                      /\ ghost' = ghost
                 ELSE /\ ghost' # <<>> /\ ghost'[1] = t.key
                      /\ main' = main
       ]_vars

\* a promotion into a full Main, with a key already in Ghost
C12_Witness ==
  /\ op.kind = "insert"
  /\ op.tail = "promoted"
  /\ op.pops > 0
  /\ main[1].freq > 1
  /\ ghost # <<>>

\* --------------------------------------------------------------------- C13
\* the entry of a non-empty Main with the smallest freq, nearest the tail
MinFreq(m) ==
  CHOOSE f \in 0 .. U8 - 1 :
    /\ \E i \in 1 .. Len(m) : m[i].freq = f
    /\ \A i \in 1 .. Len(m) : m[i].freq >= f

Victim(m) ==
  CHOOSE i \in 1 .. Len(m) :
    /\ m[i].freq = MinFreq(m)
    /\ \A j \in i + 1 .. Len(m) : m[j].freq > MinFreq(m)

\* Main without that entry: with f its freq, the entries nearer the tail
\* were popped f + 1 times and now come first, the others f times
Aged(m) ==
  LET n == Len(m)
      i == Victim(m)
      f == m[i].freq
  IN [j \in 1 .. n - 1 |->
        IF j <= n - i
        THEN [m[i + j] EXCEPT !.freq = @ - (f + 1)]
        ELSE [m[j - (n - i)] EXCEPT !.freq = @ - f]]

\* C13: Main eviction on a non-empty Main removes exactly the entry with the
\* smallest freq, nearest the tail among equals; the entries popped before it
\* went back to the head with freq - 1 each time; a tail with freq 0 is
\* dropped at once and the rest of Main keeps order and freq.
C13_MainEvictionVictim ==
  [][ (op'.kind = "insert" /\ op'.pops > 0) =>
        /\ main # <<>>
        /\ Len(main') = Len(main)
        /\ Tail(main') = Aged(main)
        /\ op'.pops = MinFreq(main) * Len(main) + (Len(main) - Victim(main) + 1)
        /\ back(main).freq = 0 =>
             (op'.pops = 1 /\ Tail(main') = pop_back(main))
    ]_vars

\* an eviction from a Main of two entries that rotated at least once
C13_Witness ==
  /\ op.kind = "insert"
  /\ op.pops >= 2
  /\ main_size > 1
  /\ Len(main) = main_size

\* --------------------------------------------------------------------- C14
RECURSIVE SumFreq(_)
SumFreq(m) == IF m = <<>> THEN 0 ELSE Head(m).freq + SumFreq(Tail(m))

\* C14: from every reachable Main the loop of Main eviction stops within
\* 3 * |Main| + 1 pops; each pop but the last lowers the sum of the freq
\* values by one; on an empty Main it stops at once and changes nothing.
C14_EvictionTerminates ==
  /\ evict_main_pops(main) <= MAX_FREQ * Len(main) + 1
  /\ op.pops <= MAX_FREQ * main_size + 1
  /\ main = <<>> => (evict_main(main) = main /\ evict_main_pops(main) = 0)
  /\ main # <<>> =>
       /\ Len(evict_main(main)) = Len(main) - 1
       /\ SumFreq(main) - SumFreq(evict_main(main)) = evict_main_pops(main) - 1

\* an eviction that needed the full 3 * |Main| + 1 pops
C14_Witness ==
  /\ op.kind = "insert"
  /\ main_size > 1
  /\ op.pops = MAX_FREQ * main_size + 1

\* --------------------------------------------------------------------- C15
\* C15: a step in which Main eviction ran leaves Ghost as it was (and Small
\* too when the insert went to Main); the only step that changes Ghost is an
\* insert that demotes the tail of Small, whose key it puts at Ghost's head.
C15_GhostOnlyFromSmall ==
  [][ /\ (op'.kind = "insert" /\ op'.pops > 0) =>
           /\ ghost' = ghost
           /\ contains(ghost, op'.key) => small' = small
      /\ ghost' # ghost =>
           /\ op'.kind = "insert"
           /\ ~contains(ghost, op'.key)
           /\ Len(small) >= small_size
           /\ small # <<>>
           /\ back(small).freq <= 1
           /\ ghost'[1] = back(small).key
           /\ Tail(ghost') \in {ghost, pop_back(ghost)}
    ]_vars

\* Main eviction dropped an entry and Ghost holds no key at all
C15_Witness ==
  /\ op.kind = "insert"
  /\ op.pops > 0
  /\ ghost = <<>>
  /\ Len(main) = main_size

\* --------------------------------------------------------------------- C16
\* C16: Small and Ghost are FIFO whatever the reads did.  A read or an insert
\* that goes to Main moves nothing in Small or Ghost.  An insert that goes to
\* Small moves every entry one place towards the tail and removes the entry
\* at place small_size, if any: an entry leaves during the small_size-th
\* insert to Small after its own, in the order of entry.  Ghost takes keys at
\* its head only and, when full, drops its tail, the key that came first.
C16_StrictFifo ==
  [][ /\ (op'.kind = "read" \/ (op'.kind = "insert" /\ contains(ghost, op'.key))) =>
           (Shape(small') = Shape(small) /\ ghost' = ghost)
      /\ (op'.kind = "insert" /\ ~contains(ghost, op'.key)) =>
           /\ Len(small') = (IF Len(small) >= small_size
                             THEN Len(small) ELSE Len(small) + 1)
           /\ Shape(small')[1] = <<op'.key, op'.value>>
           /\ \A i \in 1 .. Len(small) :
                i < small_size => Shape(small')[i + 1] = Shape(small)[i]
           /\ IF Len(small) >= small_size /\ small # <<>> /\ back(small).freq <= 1
              THEN ghost' = <<back(small).key>> \o
                              (IF Len(ghost) >= main_size
                               THEN pop_back(ghost) ELSE ghost)
              ELSE ghost' = ghost
    ]_vars

\* a demotion into a full Ghost of two keys, after reads of entries of Small
C16_Witness ==
  /\ op.kind = "insert"
  /\ op.drop
  /\ small_size > 1
  /\ main_size > 1
  /\ Len(ghost) = main_size
  /\ ghost[1] # ghost[2]
  /\ ~contains(ghost, op.key)
  /\ \E i \in 1 .. Len(small) : small[i].freq > 0

\* --------------------------------------------------------------------- C17
\* the insert of op' goes to Small and evicts a tail with freq > 1
Promotes ==
  /\ Len(small) >= small_size
  /\ small # <<>>
  /\ back(small).freq > 1

\* C17: an insert of a key that is not in Ghost leaves Main exactly as it was
\* unless the tail of Small it evicts has freq > 1; an evicted tail that was
\* read at most once (freq 0 or 1) goes to Ghost and not to Main; a read that
\* hits in Small does not change Main either.
C17_ScanResistance ==
  [][ /\ (op'.kind = "insert" /\ ~contains(ghost, op'.key)) =>
           /\ ~Promotes => main' = main
           /\ main' # main =>
                /\ Promotes
                /\ main'[1] = back(small)
                /\ main'[1].freq > 1
           /\ (Len(small) >= small_size /\ small # <<>> /\ back(small).freq <= 1) =>
                /\ ghost'[1] = back(small).key
                /\ main' = main
      /\ (op'.kind = "read" /\ HasKey(small, op'.key)) => main' = main
    ]_vars

\* a tail of Small was demoted while Main was full and stayed as it was
C17_Witness ==
  /\ op.kind = "insert"
  /\ op.tail = "demoted"
  /\ main_size > 1
  /\ Len(main) = main_size
  /\ small_size > 1

\* --------------------------------------------------------------------- C18
AllDone == \A r \in 1 .. Len(readers.th) : readers.th[r].pc = "done"

\* C18: once all N concurrent reads of an entry are done, its counter is
\* min(3, f0 + N), f0 being its value before them.
C18_ConcurrentReads ==
  AllDone =>
    LET i == find(self, readers.key)
        n == Len(readers.th)
    IN /\ i # 0
       /\ freq_at(self, i) =
            (IF readers.f0 + n > MAX_FREQ THEN MAX_FREQ ELSE readers.f0 + n)

\* three reads done, two of which saw a counter already above 3
C18_Witness ==
  /\ AllDone
  /\ Len(readers.th) = MaxReaders
  /\ main # <<>>
  /\ \E r, t \in 1 .. Len(readers.th) :
       /\ r # t
       /\ readers.th[r].old > MAX_FREQ
       /\ readers.th[t].old > MAX_FREQ

\* --------------------------------------------------------------------- C19
NoRepeat(g) == \A i, j \in 1 .. Len(g) : g[i] = g[j] => i = j

\* C19: when every insert is made for a key that has no entry in Small or
\* Main, after every operation each key has at most one entry across Small
\* and Main, Ghost holds no key twice, and no key of Small is in Ghost.
C19_OnMissDiscipline ==
  /\ UniqueKeys(Live)
  /\ NoRepeat(ghost)
  /\ KeysOf(small) \cap GhostKeys = {}

\* a key re-admitted to Main while Ghost is full with two different keys
C19_Witness ==
  /\ op.kind = "insert"
  /\ op.in_ghost
  /\ Len(ghost) > 1
  /\ Len(small) = small_size
  /\ main # <<>>
  /\ contains(ghost, main[1].key)

\* --------------------------------------------------------------------- C20
\* C20 as stated: a read(k) right after insert(k, v) returns v, whatever
\* older entries with key k are in Small or Main.
C20_Original ==
  op.kind = "insert" => read(self, op.key).ret = Some(op.value)

\* C20 as amended: a read(k) right after insert(k, v) hits; it returns v,
\* also with older entries of key k in Small or Main, unless k was in Ghost
\* at the insert and an older entry with key k is in Small: the new entry is
\* in Main then and the read returns the value of the first such entry.
C20_ReadYourWrite ==
  op.kind = "insert" =>
    LET r == read(self, op.key).ret
    IN /\ r # None
       /\ IF op.in_ghost /\ HasKey(small, op.key)
          THEN \E i \in 1 .. Len(small) :
                 IsFirst(small, op.key, i) /\ r = Some(small[i].value)
          ELSE r = Some(op.value)

\* an insert to Small with an older entry of the same key and another value
\* behind it in Small
C20_Witness ==
  /\ op.kind = "insert"
  /\ ~op.in_ghost
  /\ \E i \in 2 .. Len(small) :
       small[i].key = op.key /\ small[i].value # op.value
  /\ HasKey(main, op.key)
====
